---- MODULE Spec2Model ----
(***************************************************************************)
(* A model of to_nwb/chang/chang2nwb.py: one call of chang2nwb, from the   *)
(* reading of the electrode metadata to the read check of the written      *)
(* session file.  Strings the code takes apart (the long labels) are       *)
(* sequences of one-character strings; strings it only compares are TLA+   *)
(* strings.  Python indices are kept 0-based: position i of a Python list  *)
(* is element i+1 of the sequence that models it.                          *)
(***************************************************************************)
EXTENDS Integers, Sequences, FiniteSets, TLC

(* ------------------------------ bounds -------------------------------- *)

\* Longest anatomy list drawn by Init.
MaxN == 3

\* Largest number of '*pial.mat' files the glob of line 186 finds.
MaxPial == 2

(* ------------------------------ strings ------------------------------- *)

Digits == {"0", "1", "2", "3", "4", "5", "6", "7", "8", "9"}

\* The literal 'Electrode' of lines 198-199.
Electrode == <<"E", "l", "e", "c", "t", "r", "o", "d", "e">>

\* The literals of line 235.
DevNaN == <<"N", "a", "N">>
DevRight == <<"R", "i", "g", "h", "t">>
DevEKG == <<"E", "K", "G">>
ExcludedDevices == {DevNaN, DevRight, DevEKG}

\* The literals of line 207.
ExcludedShort == {"RT", "EKG", "NaN"}

\* str.find: the lowest 0-based index at which sub occurs in s, or -1.
Find(s, sub) ==
  LET hits == {i \in 0..(Len(s) - Len(sub)) :
                 \A j \in 1..Len(sub) : s[i + j] = sub[j]}
  IN IF hits = {} THEN -1 ELSE CHOOSE i \in hits : \A h \in hits : i <= h

\* 'sub in s'.
Contains(s, sub) == Find(s, sub) # -1

\* s[:stop] with Python's rule for a negative stop.
SliceTo(s, stop) ==
  LET e == IF stop < 0 THEN (IF Len(s) + stop < 0 THEN 0 ELSE Len(s) + stop)
           ELSE (IF stop > Len(s) THEN Len(s) ELSE stop)
  IN SubSeq(s, 1, e)

\* ''.join(filter(lambda y: not str.isdigit(y), x))
RemoveDigits(s) == SelectSeq(s, LAMBDA c : c \notin Digits)

\* x[:x.find('Electrode')], the comprehension body of line 199.
BeforeElectrode(x) == SliceTo(x, Find(x, Electrode))

\* Lines 198-202: the branch is chosen by the first long label alone.
ElecGrpDevice(long_names) ==
  IF Contains(long_names[1], Electrode)
  THEN [i \in 1..Len(long_names) |-> BeforeElectrode(long_names[i])]
  ELSE [i \in 1..Len(long_names) |-> RemoveDigits(long_names[i])]

\* Lines 206-207: the 0-based indices of the labels kept for the LFP, in
\* anatomy order.  i is the 1-based position the scan has reached.
RECURSIVE LfpElecsFrom(_, _)
LfpElecsFrom(short_names, i) ==
  IF i > Len(short_names) THEN <<>>
  ELSE (IF short_names[i] \notin ExcludedShort THEN <<i - 1>> ELSE <<>>)
       \o LfpElecsFrom(short_names, i + 1)

LfpElecs(short_names) == LfpElecsFrom(short_names, 1)

\* Lines 209-210.
RECURSIVE EkgElecsFrom(_, _)
EkgElecsFrom(short_names, i) ==
  IF i > Len(short_names) THEN <<>>
  ELSE (IF short_names[i] = "EKG" THEN <<i - 1>> ELSE <<>>)
       \o EkgElecsFrom(short_names, i + 1)

EkgElecs(short_names) == EkgElecsFrom(short_names, 1)

\* utils.remove_duplicates: the first occurrence of each item, in order.
RECURSIVE RemoveDuplicates(_)
RemoveDuplicates(s) ==
  IF s = <<>> THEN <<>>
  ELSE LET front == RemoveDuplicates(SubSeq(s, 1, Len(s) - 1))
           last == s[Len(s)]
       IN IF \E i \in 1..Len(front) : front[i] = last
          THEN front ELSE Append(front, last)

\* Lines 234-235.
Devices(device) ==
  SelectSeq(RemoveDuplicates(device), LAMBDA x : x \notin ExcludedDevices)

\* elec_grp_df[elec_grp_df['device'] == device_name] with iterrows (lines
\* 237, 249): the 0-based row labels of that device, in anatomy order.
RECURSIVE DeviceRows(_, _, _)
DeviceRows(device, device_name, i) ==
  IF i > Len(device) THEN <<>>
  ELSE (IF device[i] = device_name THEN <<i - 1>> ELSE <<>>)
       \o DeviceRows(device, device_name, i + 1)

\* Lines 236-253: the rows add_electrode appends, device by device; row idx
\* takes its coordinates from coord[idx].
RECURSIVE AddElectrodes(_, _, _, _)
AddElectrodes(device, devices, xyz, d) ==
  IF d > Len(devices) THEN <<>>
  ELSE LET idxs == DeviceRows(device, devices[d], 1)
       IN [k \in 1..Len(idxs) |->
             [id |-> idxs[k], xyz |-> xyz[idxs[k] + 1], group |-> devices[d]]]
          \o AddElectrodes(device, devices, xyz, d + 1)

\* list(range(n))
Range(n) == [k \in 1..n |-> k - 1]

(* ------------------------------- values ------------------------------- *)

\* What a name of the program is bound to when it holds signal data, a
\* sampling rate or, after the unpacking of a dict, one of its keys: what
\* it is, which file or directory it came from, and for channel data the
\* 0-based channel indices it carries, in order.
Value(what, of, chans) == [what |-> what, of |-> of, chans |-> chans]

NoValue == Value("none", "", <<>>)

\* The [nan, nan, nan] triple of line 225; coordinate triples read from the
\* file are numbered from 1.
NanTriple == 0

\* readhtks (lines 93-111): False when a 'Wav*.htk' file cannot be read, or
\* when elecs is empty, where np.stack([]) raises ValueError.
ReadhtksRaises(elecs, files_ok) == ~files_ok \/ Len(elecs) = 0

\* readhtks' 'return rate, data' (lines 109-111).
Readhtks(htkpath, elecs) ==
  <<Value("rate", htkpath, <<>>), Value("data", htkpath, elecs)>>

\* The keys of the mapping readHTK returns, in iteration order: readhtks
\* subscripts it with 'data' and 'sampling_rate' (lines 104, 109); whether
\* it holds more keys is not decided by the callers.
ReadHTKKeys == {<<"sampling_rate", "data">>,
                <<"data", "sampling_rate">>,
                <<"data", "sampling_rate", "other">>}

\* get_analog (lines 42-50) on a block where analog{num}.wav is or is not a
\* file and ANIN{num}.htk is or is not a file; keys are readHTK's.  The
\* result says whether the call raised, which file was read, whether the
\* object returned is a 2-tuple or readHTK's dict, and what iterating over
\* it yields.
GetAnalog(wav_isfile, htk_isfile, keys) ==
  IF wav_isfile
  THEN [raised |-> FALSE, file |-> "wav", type |-> "tuple",
        items |-> <<Value("rate", "wav", <<>>), Value("data", "wav", <<>>)>>]
  ELSE IF htk_isfile
  THEN [raised |-> FALSE, file |-> "htk", type |-> "dict",
        items |-> [i \in 1..Len(keys) |-> Value("key", keys[i], <<>>)]]
  ELSE [raised |-> TRUE, file |-> "", type |-> "", items |-> <<>>]

\* 'fs, data = get_analog(...)' (lines 295, 299, 305, 310) raises ValueError
\* unless iterating over the object yields exactly two items.
UnpackRaises(ret) == Len(ret.items) # 2

(* ------------------------------- state -------------------------------- *)

VARIABLES
  anatomy,          \* elecs_metadata['anatomy']: <<[short, long]>>
  elecmatrix,       \* elecs_metadata['elecmatrix']: the coordinate triples
  opts,             \* the keyword arguments and what the globs find
  pc,               \* the step chang2nwb is about to take
  last,             \* the step it took last
  exc,              \* the exception that ended the call, with its line
  elec_grp_device,
  lfp_elecs,
  ekg_elecs,
  coord,
  nwbfile,
  elec_counter,
  all_elecs,
  rate,             \* the local 'rate' of lines 262, 276
  data,             \* the local 'data' of lines 262, 275
  analog,           \* the latest get_analog call: its files and its result
  anat_nwbfile,
  pial_names,       \* the names the loop of line 349 has still to attach
  io,               \* every NWBHDF5IO handle: "none", "open" or "closed"
  disk,             \* the files that have been opened for writing
  log,              \* the file operations so far, oldest first
  argv,             \* sys.argv[1:] when the call comes from main()
  args,             \* what parser.parse_args() returned (line 396)
  elecs,            \* the elecs argument of a readhtks call followed file by file
  wav_read          \* the names of the files that call has read (line 102)

\* What no step of chang2nwb changes: the command line and its parse, and
\* the file-by-file view of readhtks.
outside == <<argv, args, elecs, wav_read>>
inputs == <<anatomy, elecmatrix, opts, outside>>
metav == <<elec_grp_device, lfp_elecs, ekg_elecs, coord>>
tablev == <<elec_counter, all_elecs>>
signalv == <<rate, data>>
meshv == <<anat_nwbfile, pial_names>>
iov == <<io, disk, log>>
vars == <<inputs, pc, last, exc, metav, nwbfile, tablev, signalv, analog,
          meshv, iov>>

(* ------------------------------- inputs ------------------------------- *)

\* Long labels as they appear in TDT_elecs_all.mat.
LongGElectrode1 == <<"G">> \o Electrode \o <<"1">>
LongG2 == <<"G", "2">>
LongH1 == <<"H", "1">>
LongNaN == <<"N", "a", "N">>
LongEKG1 == <<"E", "K", "G", "1">>
LongRight1 == <<"R", "i", "g", "h", "t", "1">>

Entry(short, long) == [short |-> short, long |-> long]

\* The anatomy entries Init builds lists from: grid electrodes labelled in
\* both styles, a second device, and the three kinds the code excludes.
AnatomyPool ==
  {Entry("G1", LongGElectrode1), Entry("G2", LongG2), Entry("H1", LongH1),
   Entry("NaN", LongNaN), Entry("EKG", LongEKG1), Entry("RT", LongRight1)}

AllAnatomies == UNION {[1..n -> AnatomyPool] : n \in 0..MaxN}

\* Two fixed lists for the runs that vary the options: with and without an
\* EKG channel.
OptionAnatomies ==
  {<<Entry("G2", LongG2), Entry("EKG", LongEKG1), Entry("H1", LongH1)>>,
   <<Entry("G2", LongG2), Entry("H1", LongH1)>>}

\* cortical_mesh: the three documented values (the bool False is written
\* "False"), an unrecognised string, and None, which is neither truthy nor
\* the object False.
MeshValues == {"False", "internal", "external", "bad", "None"}
Truthy(cortical_mesh) == cortical_mesh \in {"internal", "external", "bad"}

FormatValues == {"htk", "mat", "bad"}

Options ==
  [ecog_format : FormatValues, cortical_mesh : MeshValues, mic : BOOLEAN,
   speakers : BOOLEAN, anin4 : BOOLEAN, hilb : BOOLEAN, npial : 0..MaxPial]

\* The options of the runs that vary the metadata: the analog channels,
\* the Hilbert series and the mesh are switched off.
PlainOptions ==
  [ecog_format : {"htk", "mat"}, cortical_mesh : {"False"}, mic : {FALSE},
   speakers : {FALSE}, anin4 : {FALSE}, hilb : {FALSE}, npial : {0}]

\* A coordinate array of m triples.
Elecmatrix(m) == [k \in 1..m |-> k]

EmptyNwbfile ==
  [devices |-> <<>>, electrodes |-> <<>>, acquisition |-> {},
   stimulus |-> {}, processing |-> {}, surfaces |-> <<>>]

NoExc == [type |-> "", line |-> 0]

\* args before parse_args has run, and in a direct call of chang2nwb.
NoArgs == [type |-> "", blockpath |-> "", outfile |-> "", scale |-> FALSE]

\* The locals, the container and the handles as a call finds them.
Fresh ==
  /\ last = ""
  /\ exc = NoExc
  /\ elec_grp_device = <<>>
  /\ lfp_elecs = <<>>
  /\ ekg_elecs = <<>>
  /\ coord = <<>>
  /\ nwbfile = EmptyNwbfile
  /\ elec_counter = 0
  /\ all_elecs = <<>>
  /\ rate = NoValue
  /\ data = NoValue
  /\ anat_nwbfile = <<>>
  /\ pial_names = <<>>
  /\ io = [anat_io |-> "none", anat_read_io |-> "none",
           io_w |-> "none", io_r |-> "none"]
  /\ disk = {}
  /\ log = <<>>

NoCall == [num |-> 0, wav_isfile |-> FALSE, htk_isfile |-> FALSE,
           ret |-> [raised |-> FALSE, file |-> "", type |-> "", items |-> <<>>]]

Init ==
  /\ \/ /\ anatomy \in AllAnatomies
        /\ elecmatrix \in {Elecmatrix(m) : m \in 0..(Len(anatomy) + 1)}
        /\ opts \in PlainOptions
     \/ /\ anatomy \in OptionAnatomies
        /\ elecmatrix = Elecmatrix(Len(anatomy))
        /\ opts \in Options
  /\ pc = "paths"
  /\ analog = NoCall
  /\ argv = <<>>
  /\ args = NoArgs
  /\ elecs = <<>>
  /\ wav_read = <<>>
  /\ Fresh

(* ------------------------------- steps -------------------------------- *)

\* An uncaught exception ends the call; nothing in chang2nwb catches one.
Raise(type, line) ==
  /\ pc' = "raised"
  /\ exc' = [type |-> type, line |-> line]

Goto(step) ==
  /\ pc' = step
  /\ exc' = exc

\* Lines 159-188: the paths, the glob for pial files and its guard.
Paths ==
  /\ pc = "paths"
  /\ last' = "paths"
  /\ IF Truthy(opts.cortical_mesh) /\ opts.npial = 0
     THEN Raise("Warning", 188)
     ELSE Goto("metadata")
  /\ UNCHANGED <<inputs, metav, nwbfile, tablev, signalv, analog, meshv, iov>>

\* Lines 191-215: load the metadata file and derive the per-electrode lists.
\* An empty anatomy fails at elec_grp_long_name[0] (line 198).
Metadata ==
  /\ pc = "metadata"
  /\ last' = "metadata"
  /\ \E file_ok \in BOOLEAN :
       IF ~file_ok
       THEN Raise("IOError", 191) /\ UNCHANGED <<elec_grp_device, lfp_elecs, ekg_elecs>>
       ELSE IF Len(anatomy) = 0
       THEN Raise("IndexError", 198) /\ UNCHANGED <<elec_grp_device, lfp_elecs, ekg_elecs>>
       ELSE /\ Goto("coord")
            /\ elec_grp_device' =
                 ElecGrpDevice([i \in 1..Len(anatomy) |-> anatomy[i].long])
            /\ lfp_elecs' = LfpElecs([i \in 1..Len(anatomy) |-> anatomy[i].short])
            /\ ekg_elecs' = EkgElecs([i \in 1..Len(anatomy) |-> anatomy[i].short])
  /\ UNCHANGED <<inputs, coord, nwbfile, tablev, signalv, analog, meshv, iov>>

\* Lines 217-225.  elec_grp_xyz_coord is the array sio.loadmat returned, and
\* numpy.ndarray has no attribute 'append': when the array is shorter than
\* the anatomy list, line 225 raises AttributeError on its first pass.
Coord ==
  /\ pc = "coord"
  /\ last' = "coord"
  /\ LET n == Len(anatomy)
     IN IF n < Len(elecmatrix)
        THEN Goto("electrodes") /\ coord' = SubSeq(elecmatrix, 1, n)
        ELSE IF n = Len(elecmatrix)
        THEN Goto("electrodes") /\ coord' = elecmatrix
        ELSE Raise("AttributeError", 225) /\ coord' = elecmatrix
  /\ UNCHANGED <<inputs, elec_grp_device, lfp_elecs, ekg_elecs, nwbfile,
                 tablev, signalv, analog, meshv, iov>>

\* Lines 228-256: the container, one device and one electrode group per
\* device name, one table row per electrode of each device, and the region
\* over all rows.
Electrodes ==
  /\ pc = "electrodes"
  /\ last' = "electrodes"
  /\ LET devices == Devices(elec_grp_device)
         rows == AddElectrodes(elec_grp_device, devices, coord, 1)
     IN /\ nwbfile' = [nwbfile EXCEPT !.devices = devices, !.electrodes = rows]
        /\ elec_counter' = Len(rows)
        /\ all_elecs' = Range(Len(rows))
  /\ Goto("ecog")
  /\ UNCHANGED <<inputs, metav, signalv, analog, meshv, iov>>

\* A time series as the container holds it.
Series(name, d, r) == [name |-> name, data |-> d, rate |-> r]

\* Lines 259-281: read the signal in the chosen format.  In the 'htk' branch
\* the EKG channels are read and added as the 'EKG' series; in the 'mat'
\* branch ekg_data is read (line 279) and not used again.
Ecog ==
  /\ pc = "ecog"
  /\ last' = "ecog"
  /\ \E files_ok \in BOOLEAN :
       IF opts.ecog_format = "htk"
       THEN IF ReadhtksRaises(lfp_elecs, files_ok)
            THEN Raise("ReadError", 262) /\ UNCHANGED <<signalv, nwbfile>>
            ELSE LET ret == Readhtks("RawHTK", lfp_elecs)
                 IN /\ rate' = ret[1]
                    /\ data' = ret[2]
                    /\ Goto("lfp")
                    /\ nwbfile' =
                         IF Len(ekg_elecs) # 0
                         THEN [nwbfile EXCEPT !.acquisition = @ \cup
                                 {Series("EKG", Readhtks("RawHTK", ekg_elecs)[2],
                                         ret[1])}]
                         ELSE nwbfile
       ELSE IF opts.ecog_format = "mat"
       THEN IF ~files_ok
            THEN Raise("IOError", 274) /\ UNCHANGED <<signalv, nwbfile>>
            ELSE /\ data' = Value("data", "ecog.mat", lfp_elecs)
                 /\ rate' = Value("rate", "ecog.mat", <<>>)
                 /\ Goto("lfp")
                 /\ UNCHANGED nwbfile
       ELSE Raise("ValueError", 281) /\ UNCHANGED <<signalv, nwbfile>>
  /\ UNCHANGED <<inputs, metav, tablev, analog, meshv, iov>>

\* Lines 283-291: the LFP series over the region of all table rows.
\* (mini only shortens the time axis, line 286.)
Lfp ==
  /\ pc = "lfp"
  /\ last' = "lfp"
  /\ nwbfile' = [nwbfile EXCEPT !.acquisition = @ \cup {Series("LFP", data, rate)}]
  /\ Goto("mic")
  /\ UNCHANGED <<inputs, metav, tablev, signalv, analog, meshv, iov>>

\* One 'fs, data = get_analog(blockpath, num)' followed by the TimeSeries
\* built from fs and data (lines 295-297, 299-302, 305-307, 310-312): add is
\* where the series goes, line the line of the call.
AnalogSeries(num, name, add, line, next) ==
  \E wav_isfile \in BOOLEAN, htk_isfile \in BOOLEAN, keys \in ReadHTKKeys :
    LET ret == GetAnalog(wav_isfile, htk_isfile, keys)
    IN /\ analog' = [num |-> num, wav_isfile |-> wav_isfile,
                     htk_isfile |-> htk_isfile, ret |-> ret]
       /\ IF ret.raised
          THEN Raise("Exception", 50) /\ UNCHANGED <<nwbfile, data>>
          ELSE IF UnpackRaises(ret)
          THEN Raise("ValueError", line) /\ UNCHANGED <<nwbfile, data>>
          ELSE /\ Goto(next)
               /\ data' = ret.items[2]
               /\ nwbfile' =
                    IF add = "acquisition"
                    THEN [nwbfile EXCEPT !.acquisition = @ \cup
                            {Series(name, ret.items[2], ret.items[1])}]
                    ELSE [nwbfile EXCEPT !.stimulus = @ \cup
                            {Series(name, ret.items[2], ret.items[1])}]

Skip(next) ==
  /\ Goto(next)
  /\ UNCHANGED <<nwbfile, data, analog>>

\* Lines 293-297.
Mic ==
  /\ pc = "mic"
  /\ last' = "mic"
  /\ IF opts.mic
     THEN AnalogSeries(1, "microphone", "acquisition", 295, "speaker1")
     ELSE Skip("speaker1")
  /\ UNCHANGED <<inputs, metav, tablev, rate, meshv, iov>>

\* Lines 298-302.
Speaker1 ==
  /\ pc = "speaker1"
  /\ last' = "speaker1"
  /\ IF opts.speakers
     THEN AnalogSeries(2, "speaker 1", "stimulus", 299, "speaker2")
     ELSE Skip("anin4")
  /\ UNCHANGED <<inputs, metav, tablev, rate, meshv, iov>>

\* Lines 304-307, inside 'if speakers'.
Speaker2 ==
  /\ pc = "speaker2"
  /\ last' = "speaker2"
  /\ AnalogSeries(3, "speaker 2", "stimulus", 305, "anin4")
  /\ UNCHANGED <<inputs, metav, tablev, rate, meshv, iov>>

\* Lines 309-312: the series is named by the string passed as anin4.
Anin4 ==
  /\ pc = "anin4"
  /\ last' = "anin4"
  /\ IF opts.anin4
     THEN AnalogSeries(4, "anin4", "acquisition", 310, "bad_time")
     ELSE Skip("bad_time")
  /\ UNCHANGED <<inputs, metav, tablev, rate, meshv, iov>>

\* Lines 314-323: the interval series is added when the file exists and
\* holds at least one segment.
BadTime ==
  /\ pc = "bad_time"
  /\ last' = "bad_time"
  /\ \E added \in BOOLEAN :
       nwbfile' =
         IF added
         THEN [nwbfile EXCEPT !.acquisition = @ \cup
                 {Series("badTimeSegments",
                         Value("intervals", "badTimeSegments.mat", <<>>), NoValue)}]
         ELSE nwbfile
  /\ Goto("hilb")
  /\ UNCHANGED <<inputs, metav, tablev, signalv, analog, meshv, iov>>

\* Lines 325-336.  readhtks returns (rate, data) and line 326 binds the
\* pair to 'data, rate'.  readhtks reads as many channels as there are
\* 'Wav*.htk' files in the directory; HilbertSeries is defined outside
\* this file and may refuse its arguments.
Hilb ==
  /\ pc = "hilb"
  /\ last' = "hilb"
  /\ IF opts.hilb
     THEN \E files_ok \in BOOLEAN, nwav \in {0, Len(anatomy)}, accepted \in BOOLEAN :
            IF ReadhtksRaises(Range(nwav), files_ok)
            THEN Raise("ReadError", 326) /\ UNCHANGED <<signalv, nwbfile>>
            ELSE LET ret == Readhtks("HilbAA_70to150_8band", Range(nwav))
                 IN /\ data' = ret[1]
                    /\ rate' = ret[2]
                    /\ IF accepted
                       THEN /\ Goto("mesh")
                            /\ nwbfile' = [nwbfile EXCEPT !.processing = @ \cup
                                  {Series("hilbert_series", ret[1], ret[2])}]
                       ELSE Raise("TypeError", 332) /\ UNCHANGED nwbfile
     ELSE Goto("mesh") /\ UNCHANGED <<signalv, nwbfile>>
  /\ UNCHANGED <<inputs, metav, tablev, analog, meshv, iov>>

(* ------------------------------ the mesh ------------------------------ *)

\* add_cortical_surface (lines 72-90): one surface per pial file, built
\* from the file's arrays.
BuiltSurfaces(npial) == [k \in 1..npial |-> [name |-> k, origin |-> "built"]]

\* Line 348 with the objects built in memory kept in place of the ones
\* read, as in attaching from the container add_cortical_surface filled.
ReadSurfacesKeepsBuilt(written) == written

\* What anat_read_io.read() returns (line 348): the surfaces of the mesh
\* archive, as objects backed by that file.
ReadSurfaces(written) ==
  [k \in 1..Len(written) |-> [name |-> written[k].name, origin |-> "read"]]

\* anat_nwbfile.acquisition['cortical_surfaces'].surfaces[pial_name]
SurfaceNamed(container, pial_name) ==
  container[CHOOSE k \in 1..Len(container) : container[k].name = pial_name]

Record(events) == log' = log \o events

\* The dispatch with 'cortical_mesh is False' written as 'not cortical_mesh'.
MeshBranchNotTruthy(cortical_mesh) ==
  IF cortical_mesh = "external" THEN "external"
  ELSE IF cortical_mesh = "internal" THEN "internal"
  ELSE IF ~Truthy(cortical_mesh) THEN "pass"
  ELSE "raise"

\* The if/elif chain of lines 338, 353, 355, 357: which branch runs.
MeshBranch(cortical_mesh) ==
  IF cortical_mesh = "external" THEN "external"
  ELSE IF cortical_mesh = "internal" THEN "internal"
  ELSE IF cortical_mesh = "False" THEN "pass"
  ELSE "raise"

\* Lines 338-343 and 353-358: the dispatch on cortical_mesh.  A pial file
\* that holds neither 'cortex' nor 'mesh' makes add_cortical_surface raise.
Mesh ==
  /\ pc = "mesh"
  /\ last' = "mesh"
  /\ \E pial_ok \in BOOLEAN :
       LET branch == MeshBranch(opts.cortical_mesh)
       IN IF branch = "external"
          THEN IF pial_ok
               THEN /\ Goto("anat_write_open")
                    /\ anat_nwbfile' = BuiltSurfaces(opts.npial)
                    /\ pial_names' = [k \in 1..opts.npial |-> k]
                    /\ UNCHANGED nwbfile
               ELSE Raise("ValueError", 83) /\ UNCHANGED <<nwbfile, meshv>>
          ELSE IF branch = "internal"
          THEN IF pial_ok
               THEN /\ Goto("export_open")
                    /\ nwbfile' = [nwbfile EXCEPT !.surfaces = BuiltSurfaces(opts.npial)]
                    /\ UNCHANGED meshv
               ELSE Raise("ValueError", 83) /\ UNCHANGED <<nwbfile, meshv>>
          ELSE IF branch = "pass"
          THEN Goto("export_open") /\ UNCHANGED <<nwbfile, meshv>>
          ELSE Raise("ValueError", 358) /\ UNCHANGED <<nwbfile, meshv>>
  /\ UNCHANGED <<inputs, metav, tablev, signalv, analog, iov>>

\* Line 344: open the mesh archive for writing.
AnatWriteOpen ==
  /\ pc = "anat_write_open"
  /\ last' = "anat_write_open"
  /\ \E ok \in BOOLEAN :
       IF ok
       THEN /\ Goto("anat_write")
            /\ io' = [io EXCEPT !.anat_io = "open"]
            /\ disk' = disk \cup {"nwbaux"}
            /\ Record(<<"anat_io.open">>)
       ELSE Raise("IOError", 344) /\ UNCHANGED iov
  /\ UNCHANGED <<inputs, metav, nwbfile, tablev, signalv, analog, meshv>>

\* Line 345 and the end of its 'with' block, which closes the handle
\* whether or not the write raised.
AnatWrite ==
  /\ pc = "anat_write"
  /\ last' = "anat_write"
  /\ io' = [io EXCEPT !.anat_io = "closed"]
  /\ \E ok \in BOOLEAN :
       IF ok
       THEN Goto("anat_read_open") /\ Record(<<"anat_io.write", "anat_io.close">>)
       ELSE Raise("IOError", 345) /\ Record(<<"anat_io.close">>)
  /\ UNCHANGED <<inputs, metav, nwbfile, tablev, signalv, analog, meshv, disk>>

\* Line 347: the read handle is opened outside any 'with' or 'try'.
AnatReadOpen ==
  /\ pc = "anat_read_open"
  /\ last' = "anat_read_open"
  /\ \E ok \in BOOLEAN :
       IF ok
       THEN /\ Goto("anat_read")
            /\ io' = [io EXCEPT !.anat_read_io = "open"]
            /\ Record(<<"anat_read_io.open">>)
       ELSE Raise("IOError", 347) /\ UNCHANGED <<io, log>>
  /\ UNCHANGED <<inputs, metav, nwbfile, tablev, signalv, analog, meshv, disk>>

\* Line 348 with the read handle scoped to the read alone, as in
\* 'with NWBHDF5IO(...) as anat_read_io: anat_nwbfile = anat_read_io.read()'.
AnatReadInWith ==
  /\ pc = "anat_read"
  /\ last' = "anat_read"
  /\ io' = [io EXCEPT !.anat_read_io = "closed"]
  /\ \E ok \in BOOLEAN :
       IF ok
       THEN /\ Goto("attach")
            /\ anat_nwbfile' = ReadSurfaces(anat_nwbfile)
            /\ Record(<<"anat_read_io.read", "anat_read_io.close">>)
       ELSE Raise("IOError", 348) /\ UNCHANGED anat_nwbfile
            /\ Record(<<"anat_read_io.close">>)
  /\ UNCHANGED <<inputs, metav, nwbfile, tablev, signalv, analog, pial_names,
                 disk>>

\* Line 348.
AnatRead ==
  /\ pc = "anat_read"
  /\ last' = "anat_read"
  /\ \E ok \in BOOLEAN :
       IF ok
       THEN /\ Goto("attach")
            /\ anat_nwbfile' = ReadSurfaces(anat_nwbfile)
            /\ Record(<<"anat_read_io.read">>)
       ELSE Raise("IOError", 348) /\ UNCHANGED <<anat_nwbfile, log>>
  /\ UNCHANGED <<inputs, metav, nwbfile, tablev, signalv, analog, pial_names,
                 io, disk>>

\* Lines 349-351: one pass of the loop, or its end.  The lookup or
\* add_acquisition may raise.
Attach ==
  /\ pc = "attach"
  /\ last' = "attach"
  /\ IF pial_names = <<>>
     THEN Goto("export_open") /\ UNCHANGED <<nwbfile, pial_names, log>>
     ELSE \E ok \in BOOLEAN :
            IF ok
            THEN /\ Goto("attach")
                 /\ nwbfile' = [nwbfile EXCEPT !.surfaces =
                       Append(@, SurfaceNamed(anat_nwbfile, Head(pial_names)))]
                 /\ pial_names' = Tail(pial_names)
                 /\ Record(<<"attach">>)
            ELSE Raise("KeyError", 350) /\ UNCHANGED <<nwbfile, pial_names, log>>
  /\ UNCHANGED <<inputs, metav, tablev, signalv, analog, anat_nwbfile, io, disk>>

(* ----------------------------- the export ----------------------------- *)

\* Line 364: open the session file for writing.
ExportOpen ==
  /\ pc = "export_open"
  /\ last' = "export_open"
  /\ \E ok \in BOOLEAN :
       IF ok
       THEN /\ Goto("export_write")
            /\ io' = [io EXCEPT !.io_w = "open"]
            /\ disk' = disk \cup {"outpath"}
            /\ Record(<<"io_w.open">>)
       ELSE Raise("IOError", 364) /\ UNCHANGED iov
  /\ UNCHANGED <<inputs, metav, nwbfile, tablev, signalv, analog, meshv>>

\* Line 365 and the end of its 'with' block.
ExportWrite ==
  /\ pc = "export_write"
  /\ last' = "export_write"
  /\ io' = [io EXCEPT !.io_w = "closed"]
  /\ \E ok \in BOOLEAN :
       IF ok
       THEN Goto("anat_close") /\ Record(<<"io_w.write", "io_w.close">>)
       ELSE Raise("IOError", 365) /\ Record(<<"io_w.close">>)
  /\ UNCHANGED <<inputs, metav, nwbfile, tablev, signalv, analog, meshv, disk>>

\* Lines 367-368.
AnatClose ==
  /\ pc = "anat_close"
  /\ last' = "anat_close"
  /\ IF opts.cortical_mesh = "external"
     THEN /\ io' = [io EXCEPT !.anat_read_io = "closed"]
          /\ Record(<<"anat_read_io.close">>)
     ELSE UNCHANGED <<io, log>>
  /\ Goto("check_open")
  /\ UNCHANGED <<inputs, metav, nwbfile, tablev, signalv, analog, meshv, disk>>

\* Line 371: reopen the session file for reading.
CheckOpen ==
  /\ pc = "check_open"
  /\ last' = "check_open"
  /\ \E ok \in BOOLEAN :
       IF ok
       THEN /\ Goto("check_read")
            /\ io' = [io EXCEPT !.io_r = "open"]
            /\ Record(<<"io_r.open">>)
       ELSE Raise("IOError", 371) /\ UNCHANGED <<io, log>>
  /\ UNCHANGED <<inputs, metav, nwbfile, tablev, signalv, analog, meshv, disk>>

\* Line 372 with a failed read caught and dropped, as in
\* 'try: io.read() / except Exception: pass'.
CheckReadSwallowed ==
  /\ pc = "check_read"
  /\ last' = "check_read"
  /\ io' = [io EXCEPT !.io_r = "closed"]
  /\ pc' = "returned"
  /\ exc' = exc
  /\ \E ok \in BOOLEAN :
       IF ok
       THEN Record(<<"io_r.read", "io_r.close">>)
       ELSE Record(<<"io_r.close">>)
  /\ UNCHANGED <<inputs, metav, nwbfile, tablev, signalv, analog, meshv, disk>>

\* Line 372 and the end of its 'with' block; then the function returns.
CheckRead ==
  /\ pc = "check_read"
  /\ last' = "check_read"
  /\ io' = [io EXCEPT !.io_r = "closed"]
  /\ \E ok \in BOOLEAN :
       IF ok
       THEN /\ pc' = "returned"
            /\ exc' = exc
            /\ Record(<<"io_r.read", "io_r.close">>)
       ELSE Raise("ReadError", 372) /\ Record(<<"io_r.close">>)
  /\ UNCHANGED <<inputs, metav, nwbfile, tablev, signalv, analog, meshv, disk>>

Next ==
  \/ Paths \/ Metadata \/ Coord \/ Electrodes \/ Ecog \/ Lfp
  \/ Mic \/ Speaker1 \/ Speaker2 \/ Anin4 \/ BadTime \/ Hilb
  \/ Mesh \/ AnatWriteOpen \/ AnatWrite \/ AnatReadOpen \/ AnatRead \/ Attach
  \/ ExportOpen \/ ExportWrite \/ AnatClose \/ CheckOpen \/ CheckRead

Spec == Init /\ [][Next]_vars

(* ------------------------------- main() ------------------------------- *)

\* Longest command line drawn by InitMain.
MaxArgs == 3

\* The words a command line is made of: the flag of line 393 in both
\* spellings, block directories and output paths.
ArgTokens == {"-s", "--scale", "EC1_B1", "EC2_B5", "out.nwb", "b.nwb"}

IsFlag(tok) == tok \in {"-s", "--scale"}

\* The words argparse takes as positional arguments, in order.
Positionals(line) == SelectSeq(line, LAMBDA tok : ~IsFlag(tok))

\* The defaults of the signature (lines 114-118).
DefaultOptions ==
  [ecog_format |-> "htk", cortical_mesh |-> "False", mic |-> TRUE,
   speakers |-> TRUE, anin4 |-> FALSE, hilb |-> FALSE, npial |-> 0]

InitMain ==
  /\ argv \in UNION {[1..n -> ArgTokens] : n \in 0..MaxArgs}
  /\ args = NoArgs
  /\ anatomy \in OptionAnatomies
  /\ elecmatrix = Elecmatrix(Len(anatomy))
  /\ opts = DefaultOptions
  /\ pc = "parse_args"
  /\ analog = NoCall
  /\ elecs = <<>>
  /\ wav_read = <<>>
  /\ Fresh

\* Lines 386-396: the parser takes exactly two positional arguments,
\* blockpath and outfile, and the store_true flag -s/--scale; any other
\* number of positionals ends the process with argparse's error.
ParseArgs ==
  /\ pc = "parse_args"
  /\ last' = "parse_args"
  /\ LET pos == Positionals(argv)
     IN IF Len(pos) = 2
        THEN /\ Goto("call")
             /\ args' = [type |-> "Namespace", blockpath |-> pos[1],
                         outfile |-> pos[2],
                         scale |-> \E k \in 1..Len(argv) : IsFlag(argv[k])]
        ELSE Raise("SystemExit", 396) /\ args' = args
  /\ UNCHANGED <<anatomy, elecmatrix, opts, argv, elecs, wav_read, metav,
                 nwbfile, tablev, signalv, analog, meshv, iov>>

\* Line 398: 'chang2nwb(**args)'.  The ** of a call takes a mapping, and
\* args is an argparse.Namespace, which is not one: the call raises
\* TypeError before chang2nwb is entered.
CallChang2nwb ==
  /\ pc = "call"
  /\ last' = "call"
  /\ IF args.type = "Namespace"
     THEN Raise("TypeError", 398)
     ELSE Goto("paths")
  /\ UNCHANGED <<inputs, metav, nwbfile, tablev, signalv, analog, meshv, iov>>

NextMain == ParseArgs \/ CallChang2nwb

SpecMain == InitMain /\ [][NextMain]_vars

(* ------------------------ gen_htk_num, readhtks ------------------------ *)

\* Largest zero-indexed channel number drawn by InitReadhtks.
MaxChannel == 640

\* The 64 of line 69: channels per bank.
BankSize == 64

DecimalDigits == <<"0", "1", "2", "3", "4", "5", "6", "7", "8", "9">>

\* Python's str() of a non-negative int: its decimal digits, no padding.
RECURSIVE Str(_)
Str(n) ==
  IF n < Len(DecimalDigits)
  THEN <<DecimalDigits[n + 1]>>
  ELSE Str(n \div Len(DecimalDigits)) \o <<DecimalDigits[(n % Len(DecimalDigits)) + 1]>>

\* Line 69 with the two numbers added before formatting, in place of the
\* two texts being joined.
GenHtkNumAdded(i) == Str(((i \div BankSize) + 1) + ((i % BankSize) + 1))

\* gen_htk_num (lines 57-69): 'str(i // 64 + 1) + str(np.mod(i, 64) + 1)'.
GenHtkNum(i) == Str((i \div BankSize) + 1) \o Str((i % BankSize) + 1)

\* The file name of line 102: 'Wav' + gen_htk_num(i) + '.htk'.
WavName(i) == <<"W", "a", "v">> \o GenHtkNum(i) \o <<".", "h", "t", "k">>

\* The electrode lists drawn: two channel numbers in increasing order, as
\* the index lists of lines 206-210 are.
ElecPairs(list) ==
  \E i, j \in 0..MaxChannel : i < j /\ list = <<i, j>>

\* One call readhtks(htkpath, elecs) with two electrodes.
InitReadhtks ==
  /\ ElecPairs(elecs)
  /\ wav_read = <<>>
  /\ anatomy = <<>>
  /\ elecmatrix = Elecmatrix(0)
  /\ opts = DefaultOptions
  /\ pc = "readhtks"
  /\ analog = NoCall
  /\ argv = <<>>
  /\ args = NoArgs
  /\ Fresh

\* One turn of the loop of lines 101-104: the file of the next electrode is
\* read, or readHTK raises.
ReadHtkFile ==
  /\ pc = "readhtks"
  /\ Len(wav_read) < Len(elecs)
  /\ last' = "readhtks"
  /\ \E ok \in BOOLEAN :
       IF ok
       THEN /\ Goto("readhtks")
            /\ wav_read' = Append(wav_read, WavName(elecs[Len(wav_read) + 1]))
       ELSE Raise("ReadError", 102) /\ wav_read' = wav_read
  /\ UNCHANGED <<anatomy, elecmatrix, opts, argv, args, elecs, metav, nwbfile,
                 tablev, signalv, analog, meshv, iov>>

\* Lines 105-111: the arrays are stacked and (rate, data) returned.
ReturnHtks ==
  /\ pc = "readhtks"
  /\ Len(wav_read) = Len(elecs)
  /\ last' = "return"
  /\ Goto("returned")
  /\ rate' = Readhtks("RawHTK", elecs)[1]
  /\ data' = Readhtks("RawHTK", elecs)[2]
  /\ UNCHANGED <<inputs, metav, nwbfile, tablev, analog, meshv, iov>>

NextReadhtks == ReadHtkFile \/ ReturnHtks

SpecReadhtks == InitReadhtks /\ [][NextReadhtks]_vars

(* ----------------------------- properties ----------------------------- *)

\* The steps in program order.
StepOrder ==
  <<"paths", "metadata", "coord", "electrodes", "ecog", "lfp", "mic",
    "speaker1", "speaker2", "anin4", "bad_time", "hilb", "mesh",
    "anat_write_open", "anat_write", "anat_read_open", "anat_read", "attach",
    "export_open", "export_write", "anat_close", "check_open", "check_read">>

Pos(step) == CHOOSE k \in 1..Len(StepOrder) : StepOrder[k] = step

\* The step has been taken and did not raise.
Passed(step) ==
  /\ last # ""
  /\ Pos(last) >= Pos(step)
  /\ ~(pc = "raised" /\ last = step)

InLog(event) == \E k \in 1..Len(log) : log[k] = event

\* Some occurrence of a comes before some occurrence of b.
Before(a, b) ==
  \E i \in 1..Len(log), j \in 1..Len(log) : i < j /\ log[i] = a /\ log[j] = b

Ended == pc \in {"returned", "raised"}

\* The channels of the 'LFP' acquisition series.
LfpChannels == (CHOOSE s \in nwbfile.acquisition : s.name = "LFP").data.chans

\* C1 (as claimed): once the electrodes are registered, the electrode table
\* has exactly as many rows as there are anatomy entries whose short label
\* is not 'RT', 'EKG' or 'NaN', and elec_counter and the region over all
\* electrodes have that length.
C1_RowsEqualKeptLabels ==
  Passed("electrodes") =>
    /\ elec_counter = Cardinality({i \in 1..Len(anatomy) :
                                    anatomy[i].short \notin ExcludedShort})
    /\ Len(nwbfile.electrodes) = elec_counter
    /\ Len(all_elecs) = elec_counter
    /\ elec_counter = Len(lfp_elecs)

\* C2 (as claimed): channel k of the LFP array, read for anatomy index
\* lfp_elecs[k], is tied by the region to the table row whose id is
\* lfp_elecs[k].  Stated here only for the runs in which the table has as
\* many rows as the array has channels.
C2_ChannelsMatchRows ==
  (Passed("lfp") /\ elec_counter = Len(lfp_elecs)) =>
    /\ LfpChannels = lfp_elecs
    /\ \A k \in 1..Len(lfp_elecs) :
         nwbfile.electrodes[all_elecs[k] + 1].id = lfp_elecs[k]

\* The coordinate table C3 describes for n anatomy entries.
PaddedCoord(matrix, n) ==
  IF n <= Len(matrix) THEN SubSeq(matrix, 1, n)
  ELSE matrix \o [k \in 1..(n - Len(matrix)) |-> NanTriple]

\* C3 (as claimed): the coordinate step ends with the coordinate array cut
\* to n entries, unchanged, or padded with NaN triples to n entries, and the
\* conversion goes on.
C3_CoordPaddedOrCut ==
  (last # "" /\ Pos(last) >= Pos("coord")) =>
    /\ ~(pc = "raised" /\ last = "coord")
    /\ coord = PaddedCoord(elecmatrix, Len(anatomy))

BadOption ==
  \/ opts.ecog_format \notin {"htk", "mat"}
  \/ opts.cortical_mesh \notin {"False", "internal", "external"}

\* C4: a call with an unrecognised ecog_format or cortical_mesh never
\* returns normally, and never opens the session file or the mesh archive
\* for writing.
C4_BadOptionWritesNothing ==
  BadOption =>
    /\ pc # "returned"
    /\ disk = {}
    /\ io.io_w = "none"
    /\ io.anat_io = "none"
    /\ ~InLog("io_w.open")
    /\ ~InLog("anat_io.open")

\* C4's case: a recognised format with an unrecognised mesh mode, refused at
\* the end of the assembly.
C4_Witness ==
  /\ opts.ecog_format = "htk"
  /\ opts.cortical_mesh = "bad"
  /\ opts.mic /\ opts.hilb
  /\ pc = "raised"
  /\ exc = [type |-> "ValueError", line |-> 358]

\* C5 (as claimed): a call that returns for an anatomy with EKG labels has
\* written an 'EKG' acquisition series carrying exactly the EKG-labelled
\* channels, none of which is in the LFP series.  Stated here only for the
\* runs that also have at least one LFP channel.
C5_EkgSeriesWritten ==
  (/\ pc = "returned"
   /\ Len(lfp_elecs) > 0
   /\ \E i \in 1..Len(anatomy) : anatomy[i].short = "EKG") =>
    /\ \E s \in nwbfile.acquisition :
         /\ s.name = "EKG"
         /\ s.data.what = "data"
         /\ s.data.chans = ekg_elecs
         /\ \A k \in 1..Len(ekg_elecs) : anatomy[ekg_elecs[k] + 1].short = "EKG"
         /\ Len(ekg_elecs) =
              Cardinality({i \in 1..Len(anatomy) : anatomy[i].short = "EKG"})
    /\ \A k \in 1..Len(LfpChannels) :
         anatomy[LfpChannels[k] + 1].short # "EKG"

\* C6 (as claimed): get_analog reads the WAV file whenever it exists, the
\* HTK file only when the WAV file is absent, raises when neither exists,
\* and whenever it returns, returns the pair (rate, data) of the file read.
C6_GetAnalogReturnsPair ==
  analog.num # 0 =>
    /\ analog.wav_isfile => (~analog.ret.raised /\ analog.ret.file = "wav")
    /\ (~analog.wav_isfile /\ analog.htk_isfile) =>
         (~analog.ret.raised /\ analog.ret.file = "htk")
    /\ (~analog.wav_isfile /\ ~analog.htk_isfile) => analog.ret.raised
    /\ ~analog.ret.raised =>
         /\ analog.ret.type = "tuple"
         /\ analog.ret.items = <<Value("rate", analog.ret.file, <<>>),
                                 Value("data", analog.ret.file, <<>>)>>

External == opts.cortical_mesh = "external"

\* C7 (as claimed): in 'external' mode the mesh read handle is open from
\* the read of the mesh objects until the session file has been written
\* and read back.
C7_OpenUntilReadBack ==
  (External /\ InLog("anat_read_io.read") /\ ~InLog("io_r.read")) =>
    io.anat_read_io = "open"

\* C7 (amended): in 'external' mode the mesh read handle is open from the
\* read of the mesh objects until the write of the session file has ended;
\* it is closed only after a completed write, and it is closed before the
\* session file is reopened for the read check.
C7_OpenUntilWritten ==
  External =>
    /\ (InLog("anat_read_io.read") /\ ~InLog("io_w.close")) =>
         io.anat_read_io = "open"
    /\ io.anat_read_io = "closed" =>
         /\ Before("anat_read_io.read", "io_w.write")
         /\ Before("io_w.write", "io_w.close")
         /\ Before("io_w.close", "anat_read_io.close")
    /\ io.io_w = "open" => io.anat_read_io = "open"
    /\ io.io_r # "none" => io.anat_read_io = "closed"
    /\ InLog("io_r.open") => Before("anat_read_io.close", "io_r.open")

\* C7's case: an 'external' call that ran to its end.
C7_Witness ==
  /\ External
  /\ pc = "returned"
  /\ io.anat_read_io = "closed"
  /\ Len(nwbfile.surfaces) = 2

\* C8 (as claimed): no call ends with the mesh read handle still open.
C8_HandleClosedAtExit ==
  (Ended /\ io.anat_read_io # "none") => io.anat_read_io = "closed"

\* C9: a call returns only after the session file was written and then
\* reopened and read; no read check starts before the write is done; each
\* handle on the session file is closed when its block ends, on error too;
\* and a read check that fails ends the call with that error.
C9_WriteThenReadCheck ==
  /\ pc = "returned" =>
       /\ Before("io_w.write", "io_w.close")
       /\ Before("io_w.close", "io_r.open")
       /\ Before("io_r.open", "io_r.read")
       /\ Before("io_r.read", "io_r.close")
       /\ "outpath" \in disk
  /\ InLog("io_r.open") => Before("io_w.write", "io_r.open")
  /\ io.io_w = "open" => pc = "export_write"
  /\ io.io_r = "open" => pc = "check_read"
  /\ Ended => (io.io_w # "open" /\ io.io_r # "open")
  /\ (last = "check_read" /\ ~InLog("io_r.read")) =>
       (pc = "raised" /\ exc.line = 372)

\* C9's case: the read check failed after a completed write.
C9_Witness ==
  /\ last = "check_read"
  /\ pc = "raised"
  /\ InLog("io_w.write")
  /\ io.io_r = "closed"

\* The device name C10 describes for one long label.
OwnDevice(long) ==
  IF Contains(long, Electrode)
  THEN SubSeq(long, 1, Find(long, Electrode))
  ELSE RemoveDigits(long)

\* C10 (as claimed): every electrode's device name is derived from its own
\* long label, whatever the first label looks like.
C10_DeviceFromOwnLabel ==
  Passed("metadata") =>
    /\ Len(elec_grp_device) = Len(anatomy)
    /\ \A i \in 1..Len(anatomy) : elec_grp_device[i] = OwnDevice(anatomy[i].long)

\* Every occurrence of a comes before every occurrence of b.
AllBefore(a, b) ==
  \A i \in 1..Len(log), j \in 1..Len(log) :
    (log[i] = a /\ log[j] = b) => i < j

Count(event) == Cardinality({k \in 1..Len(log) : log[k] = event})

\* C11: in 'external' mode the mesh archive is written and its write handle
\* closed before it is reopened and read; every surface attached to the
\* session container is an object obtained from that read, never one built
\* from the pial files; and the session file is opened for writing only
\* after one surface per pial name has been attached, in the order of
\* pial_names.
C11_ExternalOrder ==
  External =>
    /\ \A k \in 1..Len(nwbfile.surfaces) : nwbfile.surfaces[k].origin = "read"
    /\ InLog("anat_read_io.open") =>
         /\ Before("anat_io.open", "anat_io.write")
         /\ Before("anat_io.write", "anat_io.close")
         /\ AllBefore("anat_io.close", "anat_read_io.open")
         /\ io.anat_io = "closed"
    /\ AllBefore("anat_read_io.open", "anat_read_io.read")
    /\ InLog("attach") => InLog("anat_read_io.read")
    /\ AllBefore("anat_read_io.read", "attach")
    /\ Count("attach") = Len(nwbfile.surfaces)
    /\ AllBefore("attach", "io_w.open")
    /\ InLog("io_w.open") =>
         /\ Count("attach") = opts.npial
         /\ nwbfile.surfaces =
              [k \in 1..opts.npial |-> [name |-> k, origin |-> "read"]]

\* C11's case: two surfaces attached and the session file just written.
C11_Witness ==
  /\ External
  /\ pc = "anat_close"
  /\ Count("attach") = 2
  /\ InLog("io_w.write")

\* C12 (as claimed): a command line with an input directory and an output
\* path is parsed into blockpath, outfile and the boolean scale, and main()
\* then runs the conversion: the call of chang2nwb is entered, not refused.
C12_MainRunsConversion ==
  /\ (last = "parse_args" /\ Len(Positionals(argv)) = 2) =>
       /\ pc = "call"
       /\ args.blockpath = Positionals(argv)[1]
       /\ args.outfile = Positionals(argv)[2]
       /\ args.scale = (\E k \in 1..Len(argv) : IsFlag(argv[k]))
  /\ last = "call" => pc # "raised"

\* C13 (as claimed): with hilb set, once the Hilbert files are read the
\* names data and rate hold the signal array and the sampling rate that
\* readhtks returned for the Hilbert directory, and the series added to the
\* 'hilbert' processing module has them as its data and its rate.
C13_HilbertRoles ==
  (opts.hilb /\ Passed("hilb")) =>
    /\ data = Readhtks("HilbAA_70to150_8band", data.chans)[2]
    /\ rate = Readhtks("HilbAA_70to150_8band", <<>>)[1]
    /\ \A s \in nwbfile.processing :
         s.name = "hilbert_series" => s.data.what = "data" /\ s.rate.what = "rate"

\* The number a decimal text stands for.
RECURSIVE Val(_)
Val(text) ==
  IF Len(text) = 0 THEN 0
  ELSE Val(SubSeq(text, 1, Len(text) - 1)) * Len(DecimalDigits)
       + (CHOOSE d \in 0..(Len(DecimalDigits) - 1) :
            DecimalDigits[d + 1] = text[Len(text)])

\* text is the unpadded decimal text of n.
IsDecimalOf(text, n) ==
  /\ Len(text) > 0
  /\ \A k \in 1..Len(text) : text[k] \in Digits
  /\ Len(text) > 1 => text[1] # "0"
  /\ Val(text) = n

\* name is 'Wav', the text of i's bank, the text of i's channel in the bank,
\* '.htk', with nothing between them.
NamesBankAndChannel(name, i) ==
  \E p \in 4..(Len(name) - 5), q \in 5..(Len(name) - 4) :
    /\ SubSeq(name, 1, 3) = <<"W", "a", "v">>
    /\ p < q
    /\ IsDecimalOf(SubSeq(name, 4, p), (i \div BankSize) + 1)
    /\ IsDecimalOf(SubSeq(name, p + 1, q), (i % BankSize) + 1)
    /\ SubSeq(name, q + 1, Len(name)) = <<".", "h", "t", "k">>

\* The first channel number whose bank is 11: ten full banks.
TenBanks == 10 * BankSize

\* C14 (as claimed): every file readhtks reads is named by the bank and
\* channel texts of its electrode, and two different electrodes never get
\* the same file name.
C14_OneToOne ==
  /\ \A a \in 1..Len(wav_read) : NamesBankAndChannel(wav_read[a], elecs[a])
  /\ \A a, b \in 1..Len(wav_read) :
       elecs[a] # elecs[b] => wav_read[a] # wav_read[b]

\* C14 (amended): every file readhtks reads is named by the bank and channel
\* texts of its electrode, and two different electrodes below ten full
\* banks (640 channels) never get the same file name.
C14_OneToOneBelowTenBanks ==
  /\ \A a \in 1..Len(wav_read) : NamesBankAndChannel(wav_read[a], elecs[a])
  /\ \A a, b \in 1..Len(wav_read) :
       (elecs[a] # elecs[b] /\ elecs[a] < TenBanks /\ elecs[b] < TenBanks) =>
         wav_read[a] # wav_read[b]

\* Two files were read and returned, the second from the tenth bank, the
\* first from a bank with a one-digit number and a two-digit channel.
C14_Witness ==
  /\ pc = "returned" /\ last = "return"
  /\ Len(wav_read) = 2
  /\ elecs[1] < elecs[2]
  /\ elecs[1] % BankSize >= 9 /\ elecs[1] < 9 * BankSize
  /\ elecs[2] >= 9 * BankSize /\ elecs[2] < TenBanks

====
